---- MODULE Spec2Model ----
(***************************************************************************)
(* Tabular Q-learning with the Safety Bellman Equation:                    *)
(* tabular_q_learning/q_learning.py, function learn (with select_action).  *)
(*                                                                         *)
(* Floating point numbers are modelled as exact fixed-point integers:      *)
(* table values, rewards and targets are integers counting 1/Unit, a       *)
(* discount gamma and a rate epsilon are numerators over GammaDen, a       *)
(* learning rate alpha is a numerator over AlphaDen.  Unit is chosen so    *)
(* that every product the run computes is exact.                           *)
(***************************************************************************)
EXTENDS Integers, Sequences, FiniteSets, TLC

\* Python's None, and an optional number that is present
None == <<>>
Some(v) == <<v>>
Val(o) == o[1]

\* ---- bounds of the model ------------------------------------------------
MaxEpisodes == 2
MaxLen == 2
MaxSteps == 4

Max(a, b) == IF a >= b THEN a ELSE b
Min(a, b) == IF a <= b THEN a ELSE b

\* the most environment steps one run of the model takes: MaxSteps when the
\* episodes have no maximal length
StepCap == Max(MaxSteps, MaxEpisodes * MaxLen)

\* ---- fixed-point arithmetic ----------------------------------------------
GammaDen == 10
AlphaDen == 2

RECURSIVE Pow(_, _)
Pow(b, n) == IF n = 0 THEN 1 ELSE b * Pow(b, n - 1)

\* one step divides by GammaDen and by AlphaDen once each
Unit == Pow(GammaDen * AlphaDen, StepCap)

\* (g / GammaDen) * x and (a / AlphaDen) * x
GMul(g, x) == g * (x \div GammaDen)
AMul(a, x) == a * (x \div AlphaDen)

RECURSIVE GCD(_, _)
GCD(a, b) == IF b = 0 THEN a ELSE GCD(b, a % b)
Abs(x) == IF x < 0 THEN -x ELSE x
\* the rational n / d in lowest terms
Rat(n, d) == LET g == GCD(Abs(n), d) IN [num |-> n \div g, den |-> d \div g]

\* ---- the environment and the helpers of utils ----------------------------
\* an environment with two actions
Env == [action_space_n |-> 2, spec_id |-> "env-v0"]

\* one state dimension, [0, 4] cut into two buckets
buckets == <<2>>
state_bounds == <<<<0, 4>>>>

\* the observations env.reset and env.step may return
Observations == {-1, 3}

\* the signal env.step returns with an observation: the margin there
Signal(obs) == IF obs < 2 THEN 1 * Unit ELSE 3 * Unit

\* discretize_state: clip to the bounds, then the index of the equal-width bin
discretize_state(bk, bounds, x) ==
    [i \in 1..Len(bk) |->
        LET lo == bounds[i][1]
            hi == bounds[i][2]
            c  == Max(lo, Min(hi, x))
            w  == (hi - lo) \div bk[i]
        IN  Min((c - lo) \div w, bk[i] - 1)]

\* discrete_to_real: the centre of the bucket
discrete_to_real(bk, bounds, s) ==
    LET lo == bounds[1][1]
        hi == bounds[1][2]
        w  == (hi - lo) \div bk[1]
    IN  lo + s[1] * w + w \div 2

\* env.l_function: the margin at a real-valued state
l_function(x) == (3 - x) * Unit

\* the multi-indices of an array of a two-dimensional shape
Indices(shape) == {<<s, a>> : s \in 0..(shape[1] - 1), a \in 0..(shape[2] - 1)}

\* shape[:-1]
AllButLast(shape) == SubSeq(shape, 1, Len(shape) - 1)

\* np.zeros(n)
Zeros(n) == [i \in 0..(n - 1) |-> 0]

\* ---- the caller's schedule functions -------------------------------------
Schedules == {1, 2}

get_epsilon(sch, ep, n) ==
    IF sch = 1 THEN 5 ELSE (IF ep >= 2 THEN 0 ELSE 10)

get_learning_rate(sch, ep, n) ==
    IF sch = 1 THEN 1 ELSE (IF n = 1 THEN 2 ELSE 1)

get_gamma(sch, ep, n) ==
    IF sch = 1 THEN 9 ELSE (IF n = 1 THEN 5 ELSE 10)

\* np.random.random() after np.random.seed(seed): the k-th draw, in tenths
RandomDraw(seed, k) == (7 * seed + 3 * k) % GammaDen

\* ---- warm-start tables ----------------------------------------------------
\* a caller's table of the given shape
WarmTable(shape) ==
    [shape |-> shape,
     cells |-> [idx \in Indices(shape) |->
                   IF idx[1] = idx[2] THEN 2 * Unit ELSE idx[2] * Unit]]

WarmShapes ==
    {<<buckets[1], Env.action_space_n>>,
     <<buckets[1] + 1, Env.action_space_n>>,
     <<buckets[1], Env.action_space_n - 1>>}

FictitiousVals == {None, Some(0), Some(-5 * Unit)}

\* the argument lists of learn: calls without a table to start from, with
\* every backup mode, and warm-start calls with the default backup mode
FreshCalls ==
    [max_episodes : 1..MaxEpisodes,
     max_episode_length : {None} \cup {Some(n) : n \in 0..MaxLen},
     q_values : {None},
     start_episode : {None, Some(1)},
     seed : {0},
     fictitious_terminal_val : FictitiousVals,
     use_sbe : BOOLEAN,
     save_freq : {None},
     schedule : Schedules]

WarmCalls ==
    [max_episodes : 1..MaxEpisodes,
     max_episode_length : {None, Some(MaxLen)},
     q_values : {WarmTable(sh) : sh \in WarmShapes},
     start_episode : {None, Some(1)},
     seed : {0},
     fictitious_terminal_val : {None},
     use_sbe : {TRUE},
     save_freq : {None},
     schedule : Schedules]

\* calls that checkpoint every save_freq episodes
SaveCalls ==
    [max_episodes : 1..MaxEpisodes,
     max_episode_length : {None, Some(1)},
     q_values : {None},
     start_episode : {None},
     seed : {0},
     fictitious_terminal_val : {None},
     use_sbe : {TRUE},
     save_freq : {Some(1), Some(2)},
     schedule : Schedules]

Calls == FreshCalls \cup WarmCalls \cup SaveCalls

VARIABLES
    pc,               \* INIT, RESET, STEP, TERMINATE, DONE or ERROR
    args,             \* the arguments of the call
    q_values,         \* the value table: None, or [shape, cells]
    stats,            \* None, or the statistics record
    start_episode, epsilon, alpha, gamma,
    episode, state, done, t, episode_rewards,
    action, num_visits, q_terminal, q_non_terminal, new_q,
    draw,             \* the last value of np.random.random()
    sampled,          \* whether the last action came from action_space.sample()
    rng,              \* number of draws taken from np.random
    env_calls,        \* how often each method of env has been called
    warnings,         \* the warnings issued
    error,            \* None, or the exception raised
    q_writes,         \* per table cell, the number of writes by line 166
    stat_writes,      \* per episode index, the number of writes by 176-182
    saves,            \* the calls of save: the episode and what was written by then
    printed,          \* the lines written to standard output
    run,              \* 1 in a first run, 2 in its repetition
    first,            \* None, or what the first run returned
    trace             \* what env.reset and env.step returned in the first run

vars == <<pc, args, q_values, stats, start_episode, epsilon, alpha, gamma,
          episode, state, done, t, episode_rewards, action, num_visits,
          q_terminal, q_non_terminal, new_q, draw, sampled, rng, env_calls,
          warnings, error, q_writes, stat_writes, saves, printed, run, first,
          trace>>

twin == <<run, first, trace>>
ctl == <<start_episode, epsilon, alpha, gamma>>
stepLocals == <<action, num_visits, q_terminal, q_non_terminal, new_q, draw, sampled, rng>>
epLocals == <<state, done, t, episode_rewards>>

\* an environment no method of which has been called
NoCalls ==
    [reset |-> 0, step |-> 0, set_discretization |-> 0, sample |-> 0,
     render |-> 0, close |-> 0]

Init ==
    /\ pc = "INIT"
    /\ args \in Calls
    /\ q_values = args.q_values
    /\ stats = None
    /\ start_episode = args.start_episode
    /\ epsilon = 0 /\ alpha = 0 /\ gamma = 0
    /\ episode = 0
    /\ state = <<>> /\ done = FALSE /\ t = 0 /\ episode_rewards = <<>>
    /\ action = 0 /\ num_visits = 0
    /\ q_terminal = 0 /\ q_non_terminal = 0 /\ new_q = 0
    /\ draw = 0 /\ sampled = FALSE /\ rng = 0
    /\ env_calls = NoCalls
    /\ warnings = {}
    /\ error = None
    /\ q_writes = <<>>
    /\ stat_writes = <<>>
    /\ saves = <<>>
    /\ printed = <<>>
    /\ run = 1 /\ first = None /\ trace = <<>>

\* ---- learn, lines 57-116: argument checks, table, statistics -------------
\* lines 67-68 without the check of start_episode
UsageError_Unchecked(q, se) == FALSE

\* lines 67-68: start_episode given without a warm-start table
UsageError(q, se) == q = None /\ se # None

\* line 82 comparing only the number of dimensions
ShapeOk_RankOnly(shape, bk) == Len(AllButLast(shape)) = Len(bk)

\* line 82: the shape without its last dimension is the discretization
ShapeOk(shape, bk) == AllButLast(shape) = bk

\* lines 71-80: a fresh table, every cell the margin at its bucket's centre
FreshTable ==
    LET shape == buckets \o <<Env.action_space_n>>
    IN  [shape |-> shape,
         cells |-> [idx \in Indices(shape) |->
                       l_function(discrete_to_real(buckets, state_bounds,
                                                   AllButLast(idx)))]]

\* what datetime.now() and time.process_time() may read
ClockReadings == {1, 2}

\* lines 91 and 104: when the run started and how it was seeded
Provenance(seed, now) == [start_time |-> now, seed |-> seed]

\* lines 90-106
NewStats(q, n, now) ==
    [start_time |-> Provenance(args.seed, now).start_time,
     episode_lengths |-> Zeros(n),
     average_episode_rewards |-> [i \in 0..(n - 1) |-> Rat(0, 1)],
     true_min |-> Zeros(n),
     episode_outcomes |-> Zeros(n),
     state_action_visits |-> [idx \in Indices(q.shape) |-> 0],
     epsilon |-> Zeros(n),
     learning_rate |-> Zeros(n),
     gamma |-> Zeros(n),
     state_bounds |-> state_bounds,
     buckets |-> buckets,
     type |-> "tabular q_values-learning",
     environment |-> Env.spec_id,
     seed |-> Provenance(args.seed, now).seed,
     episode |-> 0]

\* lines 62-64
LengthWarning ==
    IF args.max_episode_length = None THEN {"max_episode_length is None"} ELSE {}

\* lines 85-88
WarmStartWarning ==
    IF args.q_values # None /\ args.start_episode = None
    THEN {"warm start without start_episode"} ELSE {}

Raise(e) ==
    /\ pc' = "ERROR"
    /\ error' = e
    /\ warnings' = LengthWarning
    /\ UNCHANGED <<args, q_values, stats, ctl, episode, epLocals, stepLocals,
                   env_calls, q_writes, stat_writes, saves, printed, twin>>

LearnInit ==
    /\ pc = "INIT"
    /\ IF UsageError(args.q_values, args.start_episode)
       THEN Raise("ValueError: start_episode without q_values")
       ELSE IF args.q_values # None /\ ~ShapeOk(args.q_values.shape, buckets)
       THEN Raise("ValueError: shape of q_values")
       ELSE LET q  == IF args.q_values = None THEN FreshTable ELSE args.q_values
                se == IF args.start_episode = None THEN 0 ELSE Val(args.start_episode)
            IN  /\ q_values' = q
                /\ warnings' = LengthWarning \cup WarmStartWarning
                /\ \E now \in ClockReadings :
                      stats' = NewStats(q, args.max_episodes, now)
                /\ env_calls' = [env_calls EXCEPT !.set_discretization = @ + 1]
                /\ start_episode' = Some(se)
                /\ epsilon' = get_epsilon(args.schedule, se, 1)
                /\ alpha' = get_learning_rate(args.schedule, se, 1)
                /\ gamma' = get_gamma(args.schedule, se, 1)
                /\ q_writes' = [idx \in Indices(q.shape) |-> 0]
                /\ stat_writes' = Zeros(args.max_episodes)
                /\ pc' = "RESET"
                /\ UNCHANGED <<args, episode, epLocals, stepLocals, error, saves,
                               printed, twin>>

\* ---- learn, lines 119-128: the start of an episode -----------------------
\* line 129 with the length test at the head of the loop
LoopTest_Bounded(d, steps, maxlen) ==
    ~d /\ (maxlen = None \/ steps < Val(maxlen))

\* line 129, the test of the step loop
LoopTest(d, steps, maxlen) == ~d

\* lines 120-128 when env.reset() returns obs
ResetOn(obs) ==
    /\ pc = "RESET"
    /\ state' = discretize_state(buckets, state_bounds, obs)
    /\ env_calls' = [env_calls EXCEPT !.reset = @ + 1]
    /\ done' = FALSE
    /\ t' = 0
    /\ episode_rewards' = <<>>
    /\ pc' = IF LoopTest(FALSE, 0, args.max_episode_length)
             THEN "STEP" ELSE "TERMINATE"
    /\ UNCHANGED <<args, q_values, stats, ctl, episode, stepLocals, warnings,
                   error, q_writes, stat_writes, saves, printed>>

Reset == (\E obs \in Observations : ResetOn(obs)) /\ UNCHANGED twin

\* ---- select_action, lines 193-206 ----------------------------------------
\* np.amin in the place of np.amax
AMax_Min(q, s) ==
    LET row == {q.cells[s \o <<a>>] : a \in 0..(q.shape[2] - 1)}
    IN  CHOOSE m \in row : \A v \in row : m <= v

\* np.amax(q_values[state])
AMax(q, s) ==
    LET row == {q.cells[s \o <<a>>] : a \in 0..(q.shape[2] - 1)}
    IN  CHOOSE m \in row : \A v \in row : v <= m

\* np.argmax(q_values[state]): the first action that attains the maximum
ArgMax(q, s) ==
    LET best == {a \in 0..(q.shape[2] - 1) : q.cells[s \o <<a>>] = AMax(q, s)}
    IN  CHOOSE a \in best : \A b \in best : a <= b

\* lines 203-204 taken whatever np.random.random() returns
select_action_Unseeded(q, s, env, eps, u) ==
    {[action |-> a, sampled |-> TRUE] : a \in 0..(q.shape[2] - 1)}

\* the actions select_action(q, s, env, eps) may return when np.random.random()
\* returns u, each with whether it came from env.action_space.sample()
select_action(q, s, env, eps, u) ==
    IF u < eps
    THEN {[action |-> a, sampled |-> TRUE] : a \in 0..(env.action_space_n - 1)}
    ELSE {[action |-> ArgMax(q, s), sampled |-> FALSE]}

\* the default of select_action's parameter epsilon, line 193
DefaultEpsilon == 0

\* ---- the backup, lines 149-166 -------------------------------------------
\* the truth value Python gives an optional number
Truthy(v) == v # None /\ Val(v) # 0

\* lines 150-154 and 158-161
QTerminal(use_sbe, fict, g, r) ==
    IF use_sbe
    THEN IF Truthy(fict)
         THEN GMul(GammaDen - g, r) + GMul(g, Min(r, Val(fict)))
         ELSE r
    ELSE IF Truthy(fict)
         THEN r + GMul(g, Val(fict))
         ELSE r

\* lines 155-156 with max in the place of min
QNonTerminal_Max(use_sbe, g, r, next_max) ==
    IF use_sbe
    THEN GMul(GammaDen - g, r) + GMul(g, Max(r, next_max))
    ELSE r + GMul(g, next_max)

\* lines 155-156 and 162
QNonTerminal(use_sbe, g, r, next_max) ==
    IF use_sbe
    THEN GMul(GammaDen - g, r) + GMul(g, Min(r, next_max))
    ELSE r + GMul(g, next_max)

\* a Python bool in arithmetic
B2I(b) == IF b THEN 1 ELSE 0

\* line 165 with the two targets exchanged
NewQ_Swapped(d, qt, qn) == B2I(d) * qn + (1 - B2I(d)) * qt

\* line 165 always taking the terminal target
NewQ_AlwaysTerminal(d, qt, qn) == qt

\* line 165
NewQ(d, qt, qn) == B2I(d) * qt + (1 - B2I(d)) * qn

\* line 166 overwriting the entry with the target
Update_Overwrite(a, old, target) == target

\* line 166
Update(a, old, target) == AMul(AlphaDen - a, old) + AMul(a, target)

\* line 138 counting a first visit only
VisitIncrement_Once(v) == IF v = 0 THEN 1 ELSE v

\* line 138
VisitIncrement(v) == v + 1

\* line 170 with > in the place of >=
Truncated_Late(steps, maxlen) == maxlen # None /\ steps > Val(maxlen)

\* line 170: the episode is cut off
Truncated(steps, maxlen) == maxlen # None /\ steps >= Val(maxlen)

\* lines 144-146 without the offset of a warm start
ScheduleEpisode_NoStart(e, start) == e

\* lines 144-146, the episode the schedules are asked about
ScheduleEpisode(e, start) == e + start

\* ---- learn, lines 129-171: one pass of the step loop ---------------------
\* one pass when env.step(action) returns obs and done = d
StepOn(obs, d) ==
    /\ pc = "STEP"
    /\ args.max_episode_length = None => env_calls.step < MaxSteps
    /\ \E sel \in select_action(q_values, state, epsilon, DefaultEpsilon,
                                RandomDraw(args.seed, rng)) :
         LET r          == Signal(obs)
             next_state == discretize_state(buckets, state_bounds, obs)
             idx        == state \o <<sel.action>>
             visits     == VisitIncrement(stats.state_action_visits[idx])
             ep         == ScheduleEpisode(episode, Val(start_episode))
             g          == get_gamma(args.schedule, ep, visits)
             a          == get_learning_rate(args.schedule, ep, visits)
             qt         == QTerminal(args.use_sbe, args.fictitious_terminal_val, g, r)
             qn         == QNonTerminal(args.use_sbe, g, r, AMax(q_values, next_state))
             target     == NewQ(d, qt, qn)
         IN  /\ draw' = RandomDraw(args.seed, rng)
             /\ rng' = rng + 1
             /\ action' = sel.action
             /\ sampled' = sel.sampled
             /\ env_calls' = [env_calls EXCEPT
                                !.step = @ + 1,
                                !.sample = @ + B2I(sel.sampled)]
             /\ done' = d
             /\ stats' = [stats EXCEPT !.state_action_visits[idx] = visits]
             /\ num_visits' = visits
             /\ episode_rewards' = Append(episode_rewards, r)
             /\ t' = t + 1
             /\ epsilon' = get_epsilon(args.schedule, ep, visits)
             /\ alpha' = a
             /\ gamma' = g
             /\ q_terminal' = qt
             /\ q_non_terminal' = qn
             /\ new_q' = target
             /\ q_values' = [q_values EXCEPT
                               !.cells[idx] = Update(a, @, target)]
             /\ q_writes' = [q_writes EXCEPT ![idx] = @ + 1]
             /\ state' = next_state
             /\ pc' = IF Truncated(t + 1, args.max_episode_length)
                         \/ ~LoopTest(d, t + 1, args.max_episode_length)
                      THEN "TERMINATE" ELSE "STEP"
    /\ UNCHANGED <<args, start_episode, episode, warnings, error, stat_writes,
                   saves, printed>>

Step == (\E obs \in Observations, d \in BOOLEAN : StepOn(obs, d)) /\ UNCHANGED twin

\* ---- learn, lines 173-186: the statistics of the episode -----------------
RECURSIVE SeqSum(_)
SeqSum(sq) == IF sq = <<>> THEN 0 ELSE Head(sq) + SeqSum(Tail(sq))

\* np.min
SeqMin(sq) == CHOOSE m \in {sq[i] : i \in 1..Len(sq)} :
                 \A i \in 1..Len(sq) : m <= sq[i]

\* np.average
Average(sq) == Rat(SeqSum(sq), Len(sq))

\* utils.sbe_outcome(rewards, gamma)[0]: the safety backup folded from the
\* last reward back to the first
RECURSIVE sbe_outcome(_, _)
sbe_outcome(rw, g) ==
    IF Len(rw) = 1 THEN rw[1]
    ELSE GMul(GammaDen - g, rw[1]) + GMul(g, Min(rw[1], sbe_outcome(Tail(rw), g)))

\* an assignment that always goes to the first entry
Store_First(arr, i, v) == [arr EXCEPT ![0] = v]

\* an assignment arr[i] = v
Store(arr, i, v) == [arr EXCEPT ![i] = v]

\* line 185 leaving out episode 0
SaveDue_SkipFirst(freq, e) == Truthy(freq) /\ e > 0 /\ e % Val(freq) = 0

\* line 185 without the test of the episode
SaveDue_Every(freq, e) == Truthy(freq)

\* line 185
SaveDue(freq, e) == Truthy(freq) /\ e % Val(freq) = 0

Terminate ==
    /\ pc = "TERMINATE"
    /\ stats' = [stats EXCEPT
           !.episode_outcomes = Store(@, episode, sbe_outcome(episode_rewards, gamma)),
           !.true_min = Store(@, episode, SeqMin(episode_rewards)),
           !.episode_lengths = Store(@, episode, Len(episode_rewards)),
           !.average_episode_rewards = Store(@, episode, Average(episode_rewards)),
           !.learning_rate = Store(@, episode, alpha),
           !.epsilon = Store(@, episode, epsilon),
           !.gamma = Store(@, episode, gamma),
           !.episode = episode]
    /\ stat_writes' = [stat_writes EXCEPT ![episode] = @ + 1]
    /\ saves' = IF SaveDue(args.save_freq, episode)
                THEN Append(saves, [episode |-> episode, written |-> stat_writes',
                                    q_values |-> q_values, stats |-> stats',
                                    environment |-> Env.spec_id])
                ELSE saves
    /\ IF episode + 1 < args.max_episodes
       THEN episode' = episode + 1 /\ pc' = "RESET"
       ELSE episode' = episode /\ pc' = "FINISH"
    /\ UNCHANGED <<args, q_values, ctl, epLocals, stepLocals, env_calls,
                   warnings, error, q_writes, printed, twin>>

\* ---- learn, lines 188-190 ------------------------------------------------
Finish ==
    /\ pc = "FINISH"
    /\ \E elapsed \in ClockReadings :
          stats' = [time_elapsed |-> elapsed] @@ stats
    /\ printed' = Append(printed, <<"\n">>)
    /\ pc' = "DONE"
    /\ UNCHANGED <<args, q_values, ctl, episode, epLocals, stepLocals,
                   env_calls, warnings, error, q_writes, stat_writes, saves, twin>>

Next == LearnInit \/ Reset \/ Step \/ Terminate \/ Finish

Spec == Init /\ [][Next]_vars

\* ---- a run that keeps running ---------------------------------------------
\* the calls whose termination is examined
LiveCalls ==
    {c \in FreshCalls : c.fictitious_terminal_val = None}

LiveInit == Init /\ args \in LiveCalls

\* learn is one sequential thread and env.reset and env.step return: a
\* statement that can run does run
LiveSpec == LiveInit /\ [][Next]_vars /\ WF_vars(Next)

\* ---- learn called twice with the same arguments --------------------------
\* the calls that are repeated
TwinCalls ==
    {c \in FreshCalls : /\ c.fictitious_terminal_val = None
                        /\ c.use_sbe
                        /\ c.start_episode = None
                        /\ c.max_episode_length \in {None, Some(MaxLen)}}

TwinInit == Init /\ args \in TwinCalls

\* how many answers the environment has given in this run
Asked == env_calls.reset + env_calls.step

\* the first run: what the environment answers is recorded
FirstReset ==
    /\ run = 1
    /\ \E obs \in Observations :
          /\ ResetOn(obs)
          /\ trace' = Append(trace, [obs |-> obs, done |-> FALSE])
    /\ UNCHANGED <<run, first>>

FirstStep ==
    /\ run = 1
    /\ \E obs \in Observations, d \in BOOLEAN :
          /\ StepOn(obs, d)
          /\ trace' = Append(trace, [obs |-> obs, done |-> d])
    /\ UNCHANGED <<run, first>>

\* line 190 of the first run, and learn called again with the same arguments
Again ==
    /\ pc = "DONE" /\ run = 1
    /\ first' = [q_values |-> q_values, stats |-> stats]
    /\ run' = 2
    /\ pc' = "INIT"
    /\ q_values' = args.q_values
    /\ stats' = None
    /\ start_episode' = args.start_episode
    /\ epsilon' = 0 /\ alpha' = 0 /\ gamma' = 0
    /\ episode' = 0
    /\ state' = <<>> /\ done' = FALSE /\ t' = 0 /\ episode_rewards' = <<>>
    /\ action' = 0 /\ num_visits' = 0
    /\ q_terminal' = 0 /\ q_non_terminal' = 0 /\ new_q' = 0
    /\ draw' = 0 /\ sampled' = FALSE /\ rng' = 0
    /\ env_calls' = NoCalls
    /\ warnings' = {}
    /\ q_writes' = <<>>
    /\ stat_writes' = <<>>
    /\ saves' = <<>>
    /\ printed' = <<>>
    /\ UNCHANGED <<args, error, trace>>

\* the second run: the deterministic environment answers its k-th call as it
\* did in the first run
SecondReset ==
    /\ run = 2
    /\ Asked < Len(trace)
    /\ ResetOn(trace[Asked + 1].obs)
    /\ UNCHANGED twin

SecondStep ==
    /\ run = 2
    /\ Asked < Len(trace)
    /\ StepOn(trace[Asked + 1].obs, trace[Asked + 1].done)
    /\ UNCHANGED twin

TwinNext ==
    \/ LearnInit \/ FirstReset \/ FirstStep \/ Terminate \/ Finish
    \/ Again \/ SecondReset \/ SecondStep

TwinSpec == TwinInit /\ [][TwinNext]_vars

\* ---- play, lines 209-240 --------------------------------------------------
\* the argument lists of play
PlayCalls ==
    [q_values : {FreshTable, WarmTable(<<buckets[1], Env.action_space_n>>)},
     num_episodes : 0..MaxEpisodes,
     episode_length : {None} \cup {Some(n) : n \in 0..MaxLen},
     suppress_print : BOOLEAN]

\* pc is FOR at the head of the loop of line 226, WHILE at the head of the
\* loop of line 230 and CLOSED after line 240; episode is the loop variable i
PlayInit ==
    /\ pc = "FOR"
    /\ args \in PlayCalls
    /\ q_values = args.q_values
    /\ stats = None
    /\ start_episode = None
    /\ epsilon = 0 /\ alpha = 0 /\ gamma = 0
    /\ episode = 0
    /\ state = <<>> /\ done = FALSE /\ t = 0 /\ episode_rewards = <<>>
    /\ action = 0 /\ num_visits = 0
    /\ q_terminal = 0 /\ q_non_terminal = 0 /\ new_q = 0
    /\ draw = 0 /\ sampled = FALSE /\ rng = 0
    /\ env_calls = NoCalls
    /\ warnings = {}
    /\ error = None
    /\ q_writes = <<>>
    /\ stat_writes = <<>>
    /\ saves = <<>>
    /\ printed = <<>>
    /\ run = 1 /\ first = None /\ trace = <<>>

\* what play never assigns
playIdle == <<args, q_values, stats, ctl, episode_rewards, num_visits, q_terminal,
              q_non_terminal, new_q, draw, warnings, error, q_writes, stat_writes,
              saves, twin>>

\* line 226 leaving the loop after the first episode
RangeOver_First(i, n) == i >= 1

\* line 226: range(num_episodes) has no i left
RangeOver(i, n) == i >= n

\* line 231: the cut-off of an episode; a length of 0 or None is no cut-off
PlayTruncated(steps, len) == Truthy(len) /\ steps >= Val(len)

\* lines 227-229
PlayReset ==
    /\ pc = "FOR"
    /\ ~RangeOver(episode, args.num_episodes)
    /\ \E obs \in Observations :
          state' = discretize_state(buckets, state_bounds, obs)
    /\ env_calls' = [env_calls EXCEPT !.reset = @ + 1]
    /\ t' = 0
    /\ done' = FALSE
    /\ pc' = "WHILE"
    /\ UNCHANGED <<playIdle, episode, action, sampled, rng, printed>>

\* lines 230-237, one pass of the loop
PlayStep ==
    /\ pc = "WHILE"
    /\ ~done
    /\ ~PlayTruncated(t, args.episode_length)
    /\ ~Truthy(args.episode_length) => env_calls.step < MaxSteps
    /\ \E obs \in Observations, d \in BOOLEAN, u \in 0..(GammaDen - 1) :
       \E sel \in select_action(q_values, state, Env, 0, u) :
          /\ rng' = rng + 1
          /\ action' = sel.action
          /\ sampled' = sel.sampled
          /\ env_calls' = [env_calls EXCEPT
                             !.step = @ + 1,
                             !.sample = @ + B2I(sel.sampled),
                             !.render = @ + 1]
          /\ state' = discretize_state(buckets, state_bounds, obs)
          /\ done' = d
          /\ t' = t + 1
    /\ pc' = "WHILE"
    /\ UNCHANGED <<playIdle, episode, printed>>

\* lines 230-232 leaving the loop, and lines 238-239
PlayEpisodeEnd ==
    /\ pc = "WHILE"
    /\ done \/ PlayTruncated(t, args.episode_length)
    /\ printed' = IF args.suppress_print THEN printed
                  ELSE Append(printed, <<"episode", episode, "lasted", t, "timesteps.">>)
    /\ episode' = episode + 1
    /\ pc' = "FOR"
    /\ UNCHANGED <<playIdle, state, done, t, action, sampled, rng, env_calls>>

\* line 240
PlayClose ==
    /\ pc = "FOR"
    /\ RangeOver(episode, args.num_episodes)
    /\ env_calls' = [env_calls EXCEPT !.close = @ + 1]
    /\ pc' = "CLOSED"
    /\ UNCHANGED <<playIdle, episode, state, done, t, action, sampled, rng, printed>>

PlayNext == PlayReset \/ PlayStep \/ PlayEpisodeEnd \/ PlayClose

\* play is one sequential thread: a statement that can run does run
PlaySpec == PlayInit /\ [][PlayNext]_vars /\ WF_vars(PlayNext)

\* ==== the properties ======================================================
\* the signal of the last environment step
LastReward == episode_rewards[Len(episode_rewards)]

\* a step of the current episode has been taken
Stepped == pc \in {"STEP", "TERMINATE"} /\ episode_rewards # <<>>

\* C1: in every step of learn the action is chosen epsilon-greedily with
\* the learner's current epsilon: when the random draw is below the current
\* epsilon the action comes from env.action_space.sample(), otherwise it is
\* the argmax action of the table at the current state.
C1_EpsilonGreedy ==
    [][Step => IF draw' < epsilon
               THEN sampled'
               ELSE ~sampled' /\ action' = ArgMax(q_values, state)]_vars

\* the terminal target with a supplied fictitious terminal value v
FictitiousTarget(use_sbe, v, g, r) ==
    IF use_sbe THEN GMul(GammaDen - g, r) + GMul(g, Min(r, v))
               ELSE r + GMul(g, v)

\* C2: after every step with done = true the target is built from the
\* fictitious terminal value whenever one is supplied (zero and negative
\* values included), and is the bare reward only when none is supplied.
C2_FictitiousTerminal ==
    (Stepped /\ done) =>
        new_q = IF args.fictitious_terminal_val = None
                THEN LastReward
                ELSE FictitiousTarget(args.use_sbe, Val(args.fictitious_terminal_val),
                                      gamma, LastReward)

\* C3: the target a step applies to the table is the terminal target when the
\* environment returned done = true, and otherwise the non-terminal target
\* (1-gamma)*reward + gamma*min(reward, next_value_max) in SBE mode and
\* reward + gamma*next_value_max in standard mode, next_value_max being the
\* maximum of the table row of the next state; reward = 1, gamma = 0.9 and
\* next_value_max = 2 give 1.0 in SBE mode and 2.8 in standard mode.
C3_TargetByDone ==
    [][Step =>
        LET r    == episode_rewards'[Len(episode_rewards')]
            nmax == AMax(q_values, state')
            idx  == state \o <<action'>>
            nont == IF args.use_sbe
                    THEN GMul(GammaDen - gamma', r) + GMul(gamma', Min(r, nmax))
                    ELSE r + GMul(gamma', nmax)
        IN  /\ new_q' = IF done' THEN q_terminal' ELSE nont
            /\ q_values'.cells[idx] = Update(alpha', q_values.cells[idx], new_q')
            /\ (~done' /\ r = Unit /\ gamma' = 9 /\ nmax = 2 * Unit) =>
                   new_q' = IF args.use_sbe THEN Unit ELSE 28 * (Unit \div 10)]_vars

\* a non-terminal step of the standard backup with reward 1, gamma 0.9 and a
\* target of 2.8
C3_Witness ==
    /\ Stepped /\ ~done /\ ~args.use_sbe
    /\ LastReward = Unit /\ gamma = 9
    /\ new_q = 28 * (Unit \div 10)

\* C4: an episode cut off by max_episode_length while the environment's last
\* step returned done = false has applied the non-terminal target in that
\* step; ended by the environment with done = true the step has applied the
\* terminal target.
C4_TruncationIsNonTerminal ==
    (pc = "TERMINATE") =>
        /\ ~done => /\ Truncated(t, args.max_episode_length)
                    /\ new_q = q_non_terminal
        /\ done => new_q = q_terminal

\* a cut-off episode whose last step would have had another target had the
\* environment ended it
C4_Witness ==
    /\ pc = "TERMINATE" /\ ~done
    /\ Truncated(t, args.max_episode_length)
    /\ new_q = q_non_terminal
    /\ q_terminal # q_non_terminal

\* C5: with a max_episode_length that is not None, 0 included, no episode
\* takes more steps than max_episode_length and no recorded length exceeds it.
C5_LengthWithinMax ==
    (args.max_episode_length # None /\ stats # None) =>
        /\ t <= Val(args.max_episode_length)
        /\ \A i \in DOMAIN stats.episode_lengths :
              stats.episode_lengths[i] <= Val(args.max_episode_length)

\* no method of env that acts on the environment has been called
EnvUntouched ==
    env_calls.reset = 0 /\ env_calls.step = 0 /\ env_calls.set_discretization = 0

\* the call passes a table whose shape without its last dimension is not buckets
LeadingMismatch ==
    args.q_values # None /\ AllButLast(args.q_values.shape) # buckets

\* C6: a call with a table whose shape without its last dimension differs
\* from buckets can only end in the shape error, with no call of env.reset,
\* env.step or env.set_discretization, without statistics and with the table
\* as it was passed.
C6_ShapeMismatchFailsFast ==
    /\ [](LeadingMismatch =>
            /\ pc \in {"INIT", "ERROR"}
            /\ pc = "ERROR" => error = "ValueError: shape of q_values"
            /\ EnvUntouched
            /\ stats = None
            /\ q_values = args.q_values
            /\ episode = 0)
    /\ [][(LeadingMismatch /\ pc = "INIT") => pc' = "ERROR"]_vars

\* the shape error has been raised
C6_Witness ==
    LeadingMismatch /\ pc = "ERROR" /\ error = "ValueError: shape of q_values"

\* C7: once a run has passed initialization, the table's leading dimensions
\* are buckets and its trailing dimension is env.action_space.n.
C7_TableShape ==
    (pc \notin {"INIT", "ERROR"}) =>
        /\ AllButLast(q_values.shape) = buckets
        /\ q_values.shape[Len(q_values.shape)] = Env.action_space_n

\* the call passes start_episode and no table
StartEpisodeAlone == args.q_values = None /\ args.start_episode # None

\* C8: a call with start_episode and no table can only end in the usage error,
\* with no table, no statistics and no episode; a warm-start table without
\* start_episode, or max_episode_length = None, only adds a warning: unless
\* the call is one of the two fatal ones the run proceeds, with start_episode
\* resolved to 0 where it was not given.
C8_UsageErrorAndWarnings ==
    /\ [](StartEpisodeAlone =>
            /\ pc \in {"INIT", "ERROR"}
            /\ pc = "ERROR" => error = "ValueError: start_episode without q_values"
            /\ q_values = None
            /\ stats = None
            /\ EnvUntouched
            /\ episode = 0 /\ episode_rewards = <<>>)
    /\ [][(StartEpisodeAlone /\ pc = "INIT") => pc' = "ERROR"]_vars
    /\ []((pc # "INIT" /\ ~StartEpisodeAlone /\ ~LeadingMismatch) =>
            /\ pc # "ERROR" /\ error = None
            /\ stats # None
            /\ ("max_episode_length is None" \in warnings)
                  <=> args.max_episode_length = None
            /\ ("warm start without start_episode" \in warnings)
                  <=> (args.q_values # None /\ args.start_episode = None)
            /\ args.start_episode = None => start_episode = Some(0))

\* the usage error has been raised
C8_Witness ==
    /\ StartEpisodeAlone /\ pc = "ERROR"
    /\ error = "ValueError: start_episode without q_values"

RECURSIVE SumOver(_, _)
SumOver(f, S) ==
    IF S = {} THEN 0
    ELSE LET x == CHOOSE y \in S : TRUE IN f[x] + SumOver(f, S \ {x})

\* C9: every visit count starts at 0 and never decreases, a step adds exactly
\* one to the count of the pair it updates and leaves the others alone, the
\* count of a pair is the number of table updates applied to it, and the
\* counts add up to the number of environment steps taken.
C9_VisitCounts ==
    /\ [](stats # None =>
            /\ \A idx \in DOMAIN stats.state_action_visits :
                  stats.state_action_visits[idx] = q_writes[idx]
            /\ SumOver(stats.state_action_visits, DOMAIN stats.state_action_visits)
                  = env_calls.step)
    /\ [][LearnInit /\ stats' # None =>
            \A idx \in DOMAIN stats'.state_action_visits :
                stats'.state_action_visits[idx] = 0]_vars
    /\ [][stats # None =>
            \A idx \in DOMAIN stats.state_action_visits :
                /\ stats'.state_action_visits[idx] >= stats.state_action_visits[idx]
                /\ stats'.state_action_visits[idx] =
                      IF Step /\ idx = state \o <<action'>>
                      THEN stats.state_action_visits[idx] + 1
                      ELSE stats.state_action_visits[idx]]_vars

\* a pair updated twice, with an update of another pair in the same run
C9_Witness ==
    /\ stats # None
    /\ \E i, j \in DOMAIN stats.state_action_visits :
          /\ i # j
          /\ stats.state_action_visits[i] = 2
          /\ stats.state_action_visits[j] = 1

\* the number of episodes whose statistics have been recorded
Completed == IF pc \in {"FINISH", "DONE"} THEN episode + 1 ELSE episode

\* the per-episode entries of the statistics at index i
StatRow(i) ==
    <<stats.episode_lengths[i], stats.average_episode_rewards[i], stats.true_min[i],
      stats.episode_outcomes[i], stats.learning_rate[i], stats.epsilon[i],
      stats.gamma[i]>>

\* C10: the per-episode statistics are written in episode order and without
\* gaps: when e + 1 episodes are complete exactly the indices 0..e have been
\* written, each once, the entries above e are still zero and stats.episode
\* is e; the rates recorded for an episode are those of its last step; when
\* learn returns every index below max_episodes has been written.
C10_StatsInOrder ==
    stats # None =>
        /\ \A i \in 0..(args.max_episodes - 1) :
              /\ stat_writes[i] = IF i < Completed THEN 1 ELSE 0
              /\ i < Completed => stats.episode_lengths[i] >= 1
              /\ i >= Completed => StatRow(i) = <<0, Rat(0, 1), 0, 0, 0, 0, 0>>
        /\ stats.episode = IF Completed = 0 THEN 0 ELSE Completed - 1
        /\ (Completed > 0 /\ pc \in {"RESET", "FINISH", "DONE"}) =>
              /\ stats.learning_rate[Completed - 1] = alpha
              /\ stats.epsilon[Completed - 1] = epsilon
              /\ stats.gamma[Completed - 1] = gamma
              /\ stats.episode_lengths[Completed - 1] = Len(episode_rewards)
        /\ pc = "DONE" => Completed = args.max_episodes

\* learn has returned after more than one episode
C10_Witness ==
    /\ pc = "DONE" /\ args.max_episodes >= 2
    /\ \A i \in 0..(args.max_episodes - 1) : stat_writes[i] = 1
    /\ stats.episode = args.max_episodes - 1

\* episode e is a multiple of a save_freq that is set
Checkpoint(e) ==
    /\ args.save_freq # None
    /\ \E k \in 0..e : k * Val(args.save_freq) = e

\* C11: with save_freq set, save has been called exactly for the completed
\* episodes whose index is a multiple of save_freq, episode 0 included, in
\* episode order and once each, every time with statistics that already hold
\* the episode just finished; without save_freq save is never called.
C11_PeriodicSaves ==
    stats # None =>
        /\ \A e \in 0..(args.max_episodes - 1) :
              (e < Completed /\ Checkpoint(e))
                <=> (\E k \in 1..Len(saves) : saves[k].episode = e)
        /\ \A k \in 1..Len(saves) :
              /\ k > 1 => saves[k - 1].episode < saves[k].episode
              /\ saves[k].written[saves[k].episode] = 1
              /\ saves[k].stats.episode = saves[k].episode
              /\ saves[k].stats.episode_lengths[saves[k].episode] >= 1
              /\ saves[k].environment = Env.spec_id
        /\ args.save_freq = None => saves = <<>>

\* two episodes with save_freq = 2: a save after episode 0, none after episode 1
C11_Witness ==
    /\ pc = "FINISH" /\ args.save_freq = Some(2) /\ args.max_episodes = 2
    /\ Len(saves) = 1 /\ saves[1].episode = 0

\* the last call of save was made after the last episode, with the final table
SavedAtEnd ==
    /\ saves # <<>>
    /\ saves[Len(saves)].episode = args.max_episodes - 1
    /\ saves[Len(saves)].q_values = q_values

\* C12 as claimed: every run that reaches DONE has called save with the final
\* table and statistics after the last episode, whatever max_episodes and
\* save_freq are.
C12_SaveAtRunEnd == pc = "DONE" => SavedAtEnd

\* C12 as amended: save is called only by the checkpoints inside the episode
\* loop, never after it: a run that reaches DONE has saved after its last
\* episode exactly when save_freq is set and max_episodes - 1 is a multiple
\* of it.
C12_SaveOnlyAtCheckpoints ==
    /\ [](pc = "DONE" => (SavedAtEnd <=> Checkpoint(args.max_episodes - 1)))
    /\ [][Finish => saves' = saves]_vars

\* a finished run whose last checkpoint is older than its last episode
C12_Witness ==
    /\ pc = "DONE" /\ args.save_freq = Some(2) /\ args.max_episodes = 2
    /\ saves # <<>> /\ ~SavedAtEnd

\* C15: a step first increments the visit count of (state, action), then asks
\* the three schedules at (start_episode + episode, that incremented count),
\* then backs up with the alpha and gamma just returned; the count passed is
\* at least 1 and is the count of the pair being updated.
C15_ScheduleOrder ==
    [][Step =>
        LET idx == state \o <<action'>>
            n   == stats.state_action_visits[idx] + 1
            ep  == Val(start_episode) + episode
            r   == episode_rewards'[Len(episode_rewards')]
        IN  /\ stats'.state_action_visits[idx] = n
            /\ num_visits' = n /\ n >= 1
            /\ epsilon' = get_epsilon(args.schedule, ep, n)
            /\ alpha' = get_learning_rate(args.schedule, ep, n)
            /\ gamma' = get_gamma(args.schedule, ep, n)
            /\ q_terminal' = QTerminal(args.use_sbe, args.fictitious_terminal_val,
                                       gamma', r)
            /\ q_non_terminal' = QNonTerminal(args.use_sbe, gamma', r,
                                              AMax(q_values, state'))
            /\ q_values'.cells[idx] = Update(alpha', q_values.cells[idx], new_q')]_vars

\* a second visit of a pair in the second episode of a warm start at episode 1
C15_Witness ==
    /\ Stepped /\ args.schedule = 2
    /\ start_episode = Some(1) /\ episode = 1
    /\ num_visits = 2
    /\ epsilon = 0 /\ alpha = 1 /\ gamma = 10

\* the largest entry of the row of state s
RowMax(q, s) ==
    LET row == {q.cells[idx] : idx \in {i \in DOMAIN q.cells : AllButLast(i) = s}}
    IN  CHOOSE m \in row : \A v \in row : v <= m

\* the non-terminal target that bootstraps from the value m
Bootstrap(use_sbe, g, r, m) ==
    IF use_sbe THEN GMul(GammaDen - g, r) + GMul(g, Min(r, m))
               ELSE r + GMul(g, m)

\* C16: the target of a step is computed from the table as it was before the
\* step's write: next_value_max is the row maximum of the old table, and when
\* the next state is the current one and the action is the row's argmax it is
\* the old value of the very cell the step overwrites.
C16_TargetFromOldTable ==
    [][Step =>
        LET idx == state \o <<action'>>
            r   == episode_rewards'[Len(episode_rewards')]
        IN  /\ q_non_terminal' =
                  Bootstrap(args.use_sbe, gamma', r, RowMax(q_values, state'))
            /\ ~done' => new_q' = q_non_terminal'
            /\ (state' = state /\ q_values.cells[idx] = RowMax(q_values, state)) =>
                  q_non_terminal' =
                    Bootstrap(args.use_sbe, gamma', r, q_values.cells[idx])]_vars

\* a step back into the same state whose target would differ had it been
\* computed from the table after the write
C16_Witness ==
    /\ Stepped /\ ~done
    /\ q_writes[state \o <<action>>] >= 1
    /\ q_non_terminal #
          Bootstrap(args.use_sbe, gamma, LastReward, RowMax(q_values, state))

\* C17: a step changes the table and the visit counts only at the index
\* (state before the step, chosen action); the new entry there is
\* (1-alpha)*old + alpha*target (alpha = 0.5, old = 2.0 and target = 1.0 give
\* 1.5), its visit count grows by one, and no other action writes the table.
C17_OneCellPerStep ==
    /\ [][Step =>
            LET idx == state \o <<action'>>
                old == q_values.cells[idx]
            IN  /\ q_values'.shape = q_values.shape
                /\ \A c \in DOMAIN q_values.cells :
                      c # idx =>
                        /\ q_values'.cells[c] = q_values.cells[c]
                        /\ stats'.state_action_visits[c] = stats.state_action_visits[c]
                /\ q_values'.cells[idx] =
                      (AlphaDen - alpha') * (old \div AlphaDen)
                        + alpha' * (new_q' \div AlphaDen)
                /\ stats'.state_action_visits[idx] = stats.state_action_visits[idx] + 1
                /\ (alpha' = 1 /\ old = 2 * Unit /\ new_q' = Unit) =>
                      q_values'.cells[idx] = 3 * (Unit \div 2)]_vars
    /\ [][(pc # "INIT" /\ ~Step) => q_values' = q_values]_vars

\* the first step of a run: alpha = 0.5, old = 2.0, target = 1.0, new entry 1.5
C17_Witness ==
    /\ Stepped /\ env_calls.step = 1
    /\ alpha = 1 /\ new_q = Unit
    /\ \E idx \in DOMAIN q_values.cells :
          q_writes[idx] = 1 /\ q_values.cells[idx] = 3 * (Unit \div 2)

C20_SafetyTargetBelowReward ==
    [][(Step /\ args.use_sbe) =>
        LET idx == state \o <<action'>>
            r   == episode_rewards'[Len(episode_rewards')]
        IN  /\ gamma' \in 0..GammaDen /\ alpha' \in 0..AlphaDen
            /\ q_terminal' <= r /\ q_non_terminal' <= r
            /\ new_q' <= r
            /\ q_values'.cells[idx] <= Max(q_values.cells[idx], r)]_vars

\* an SBE step whose target is below the reward because the next state's
\* value is
C20_Witness ==
    /\ Stepped /\ args.use_sbe /\ ~done
    /\ new_q < LastReward

\* the steps of the state machine of a run
Transitions ==
    {<<"INIT", "RESET">>, <<"INIT", "ERROR">>, <<"RESET", "STEP">>,
     <<"STEP", "STEP">>, <<"STEP", "TERMINATE">>, <<"TERMINATE", "RESET">>,
     <<"TERMINATE", "FINISH">>, <<"FINISH", "DONE">>}

\* the call has a max_episode_length of at least 1
LengthBounded ==
    args.max_episode_length # None /\ Val(args.max_episode_length) >= 1

\* C18: a run follows INIT -> (RESET -> STEP* -> TERMINATE) x max_episodes
\* -> DONE; with a max_episode_length >= 1 it always reaches DONE, after
\* exactly max_episodes episodes and at most max_episodes * max_episode_length
\* environment steps, whatever the environment signals; with
\* max_episode_length = None an episode ends only when the environment has
\* signalled done.
C18_Termination ==
    /\ [][(<<pc, pc'>> \in Transitions)]_pc
    /\ [](pc = "DONE" =>
            /\ env_calls.reset = args.max_episodes
            /\ Completed = args.max_episodes
            /\ LengthBounded =>
                  env_calls.step <= args.max_episodes * Val(args.max_episode_length))
    /\ []((LengthBounded /\ pc \in {"STEP", "TERMINATE"}) =>
            t <= Val(args.max_episode_length))
    /\ []((args.max_episode_length = None /\ pc = "TERMINATE") => done)
    /\ ((LengthBounded /\ pc = "RESET") ~> (pc = "DONE"))

\* a finished run in which the environment never signalled done
C18_Witness ==
    /\ pc = "DONE" /\ LengthBounded /\ args.max_episodes = 2
    /\ env_calls.step = args.max_episodes * Val(args.max_episode_length)
    /\ env_calls.step >= 4

\* C14: play calls env.close() exactly once, after the last step of the last
\* episode and never between episodes, however the episodes end (done, or the
\* cut-off of line 231), also for num_episodes = 0; and it never writes to the
\* value table. A play whose episodes are cut off reaches that close.
C14_ClosedOnce ==
    /\ [](env_calls.close = (IF pc = "CLOSED" THEN 1 ELSE 0))
    /\ [](pc = "CLOSED" =>
            /\ episode = args.num_episodes
            /\ env_calls.reset = args.num_episodes
            /\ ~args.suppress_print => Len(printed) = args.num_episodes)
    /\ [][(env_calls'.close # env_calls.close =>
             /\ pc = "FOR" /\ episode = args.num_episodes
             /\ UNCHANGED <<env_calls.reset, env_calls.step, env_calls.render>>)]_vars
    /\ [][(pc = "CLOSED" => UNCHANGED env_calls)]_vars
    /\ [](q_values = args.q_values /\ q_writes = <<>>)
    /\ ((Truthy(args.episode_length) \/ args.num_episodes = 0) ~> (pc = "CLOSED"))

\* two episodes were played, the first ended by done and the second by the
\* cut-off, and the environment is closed
C14_Witness ==
    /\ pc = "CLOSED" /\ args.num_episodes = 2
    /\ args.episode_length = Some(2)
    /\ Len(printed) = 2
    /\ printed[1][4] = 1 /\ printed[2][4] = 2 /\ ~done
    /\ env_calls.close = 1 /\ env_calls.step = 3

\* the fields of the statistics that hold readings of a clock, lines 91, 188
ClockFields == {"start_time", "time_elapsed"}

\* both runs have returned
BothReturned == run = 2 /\ pc = "DONE"

\* C13 as stated: two runs of learn with the same seed, schedules, arguments
\* and deterministic environment return identical value tables and statistics
\* identical in every field.
C13_IdenticalResults ==
    BothReturned => (q_values = first.q_values /\ stats = first.stats)

\* C13: two runs of learn with the same seed, schedules, arguments and
\* deterministic environment return identical value tables, and statistics
\* with the same fields, identical in every field but the clock readings
\* start_time and time_elapsed.
C13_IdenticalButClocks ==
    BothReturned =>
        /\ q_values = first.q_values
        /\ DOMAIN stats = DOMAIN first.stats
        /\ \A f \in DOMAIN stats \ ClockFields : stats[f] = first.stats[f]

\* both runs have returned after two episodes and three steps that wrote to
\* the table, and their clocks read differently
C13_Witness ==
    /\ BothReturned
    /\ args.max_episodes = 2 /\ env_calls.step >= 3 /\ Len(trace) >= 5
    /\ q_values # FreshTable /\ args.q_values = None
    /\ stats.start_time # first.stats.start_time
    /\ stats.seed = first.stats.seed

====
